---- MODULE Spec2Model ----
(***************************************************************************)
(* The backtest engine of backtester.py (class CryptoBacktester): one run  *)
(* of _execute_backtest over a bar series and its entry/exit signal        *)
(* streams, followed by _calculate_performance_metrics.                    *)
(* Spec is that run.  SpecRecorded, SpecWide and SpecGap are the same run   *)
(* over other input sets (SpecRecorded keeps the rows it has read),        *)
(* SpecTwin carries a second run over a series with another row 0,         *)
(* SpecExitSign a second run over the same series with the exit signals    *)
(* negated, and SpecSweep is run_multi_timeframe_backtest: several runs of *)
(* one backtester, with reset() after every run that returned a result.    *)
(* SpecPortfolio is run_portfolio_backtest: the runs of all symbols and    *)
(* timeframes one after another, each kept with its trades and metrics,    *)
(* followed by _calculate_portfolio_performance over the kept results.     *)
(* SpecAgain is _execute_backtest called twice on one backtester with the  *)
(* same analysis, and SpecReset is reset() called on a backtester whose    *)
(* attributes hold anything.                                               *)
(*                                                                         *)
(* Numbers.  Python floats are modelled as exact rationals <<num, den>>    *)
(* in lowest terms with den > 0; the pair <<0, 0>> stands for NaN.  Bar    *)
(* timestamps are hours since the first bar, so bar i has name i.          *)
(* Python's None and the empty dict {} are the empty sequence <<>>; a      *)
(* present position / metrics mapping is a one-element sequence.           *)
(***************************************************************************)
EXTENDS Integers, Sequences, FiniteSets, TLC

(* ------------------------------ bounds --------------------------------- *)

\* Largest number of bars len(df) of a run; bars are indexed 0 .. len(df)-1.
MaxBars == 4

\* Largest len(df) of the runs that carry a record of their inputs, a second
\* run beside them, wider inputs, or that follow one another in a sweep.
MaxSideBars == 3

\* Largest number of runs (timeframes, or symbols and timeframes) of
\* run_multi_timeframe_backtest and run_portfolio_backtest.
MaxRuns == 2

(* ------------------------- program constants --------------------------- *)

INITIAL_CAPITAL == 10000

\* Line 49: the least number of candles run_backtest accepts.
MIN_CANDLES == 100

(* --------------------------- float arithmetic -------------------------- *)

Abs(x) == IF x < 0 THEN -x ELSE x

RECURSIVE GCD(_, _)
GCD(a, b) == IF b = 0 THEN a ELSE GCD(b, a % b)

Norm(n, d) == LET g == GCD(Abs(n), d) IN <<n \div g, d \div g>>

R(x) == <<x, 1>>

NaN == <<0, 0>>

isna(x) == x[2] = 0

RNeg(a) == <<-a[1], a[2]>>

RAdd(a, b) ==
    LET g == GCD(a[2], b[2])
    IN  Norm(a[1] * (b[2] \div g) + b[1] * (a[2] \div g), (a[2] \div g) * b[2])

RSub(a, b) == RAdd(a, RNeg(b))

RMul(a, b) ==
    LET g1 == GCD(Abs(a[1]), b[2])
        g2 == GCD(Abs(b[1]), a[2])
    IN  Norm((a[1] \div g1) * (b[1] \div g2), (a[2] \div g2) * (b[2] \div g1))

RInv(b) == IF b[1] > 0 THEN <<b[2], b[1]>> ELSE <<-b[2], -b[1]>>

RDiv(a, b) == RMul(a, RInv(b))

RAbs(a) == <<Abs(a[1]), a[2]>>

RLe(a, b) == a[1] * b[2] <= b[1] * a[2]

RLt(a, b) == a[1] * b[2] < b[1] * a[2]

RGe(a, b) == RLe(b, a)

RGt(a, b) == RLt(b, a)

RMax(a, b) == IF RGe(a, b) THEN a ELSE b

RMin(a, b) == IF RLe(a, b) THEN a ELSE b

Zero == R(0)

Hundred == R(100)

(* ------------------------------- inputs -------------------------------- *)

\* Closing prices a bar may carry.
Closes == {1000, 1250}

\* Distance of a bar's low below and of its high above its close.
Wicks == {0, 100}

\* Values of the 'atr' column: missing (NaN) or a computed range.
Atrs == {NaN, R(50)}

\* Values of the entry and exit signal streams (strategy.py).
Signals == {-1, 0, 1}

Bar(name, close, wick, atr) ==
    [name |-> name, close |-> R(close), low |-> R(close - wick),
     high |-> R(close + wick), atr |-> atr]

\* The bar at index 0, which the loop never reads.
Bar0 == Bar(0, 1000, 0, NaN)

\* A wider set of 'atr' values: a zero range puts the stop and the target on
\* the entry price, a range of 125 puts the levels on prices of Closes.
AtrsWide == {NaN, R(0), R(50), R(125)}

\* Inputs of the runs that record their inputs: long entries only, and a
\* range wide enough for a price rise that stays below the target.
AtrsRecorded == {NaN, R(125)}

EntriesRecorded == {0, 1}

\* Closing prices with a twelvefold jump between two bars.
ClosesGap == {1000, 12000}

\* Row 0 of another series that agrees with the series of the run on every
\* row but row 0: another bar, another entry signal or another exit signal.
AltRows0 ==
    {[bar |-> Bar(0, 1250, 100, R(125)), entry |-> 0, exit |-> 0],
     [bar |-> Bar0, entry |-> 1, exit |-> 0],
     [bar |-> Bar0, entry |-> -1, exit |-> 0],
     [bar |-> Bar0, entry |-> 0, exit |-> 1]}

\* Lengths of the data run_backtest gets: none, one candle short, enough.
DataLengths == {0, MIN_CANDLES - 1, MIN_CANDLES}

\* Lengths of the stretch of rows on which the runs of a portfolio are
\* followed; the rows before it carry no signal.
PortfolioLengths == {1, 3}

\* A portfolio reads long entries and exit signals of one sign only.
PortfolioSignals == {0, 1}

\* Variant of loop_start: the loop starts on row 0 of the series.
loop_start_on_row0 == Bar0.name

\* Line 126, range(1, len(df)): the index of the first bar the loop evaluates.
loop_start == 1

VARIABLES
    pc,               \* "loop", "returned" (from _execute_backtest), "done"
    n,                \* len(df)
    i,                \* loop index of _execute_backtest
    current_bar,      \* df.iloc[i] of the last iteration (df.iloc[-1] at the end)
    entry_signal,     \* entry_signals.iloc[i] of the last iteration
    exit_signal,      \* exit_signals.iloc[i] of the last iteration
    capital,          \* local 'capital'
    current_position, \* local 'current_position'
    trades,           \* results['trades']
    equity_curve,     \* results['equity_curve']
    positions,        \* results['positions']
    self_positions,   \* self.positions
    performance,      \* result of _calculate_performance_metrics
    history,          \* the rows of df and of the signal streams the loop has
                      \* evaluated, where the run records them; the attributes
                      \* each reset() call found, where reset() is called
    twin,             \* the same run over a series that differs in row 0 only,
                      \* where a second run is carried along; <<>> otherwise
    run,              \* number of the run_backtest call of the sweep, of the
                      \* _execute_backtest call, or of the reset() call
    collected,        \* the results a sweep has kept: the number of trades of
                      \* every run that returned a result
                      \* (run_multi_timeframe_backtest), or the ledger and the
                      \* metrics of each such run (run_portfolio_backtest),
                      \* or the results of the first _execute_backtest call
    fetched,          \* len(df) as run_backtest sees it after clean_data
    portfolio,        \* result of _calculate_portfolio_performance
    self_state        \* the other attributes of self: initial_capital, capital,
                      \* trades, equity_curve and current_positions

vars == <<pc, n, i, current_bar, entry_signal, exit_signal, capital,
          current_position, trades, equity_curve, positions, self_positions,
          performance, history, twin, run, collected, fetched, portfolio,
          self_state>>

(* ---------------------------- PositionManager -------------------------- *)

\* Variant of open_position: every position is sized at 10% of the initial
\* capital, whatever the trades closed so far have made of it.
open_position_fixed_size(signal, bar, index, cap, selfpos) ==
    LET direction == IF signal = 1 THEN "long" ELSE "short"
        entry_price == bar.close
        position_value == RMul(R(INITIAL_CAPITAL), <<1, 10>>)
        quantity == RDiv(position_value, entry_price)
        atr == IF ~isna(bar.atr) THEN bar.atr ELSE RMul(entry_price, <<1, 50>>)
        stop_loss == IF direction = "long"
                     THEN RSub(entry_price, RMul(atr, R(2)))
                     ELSE RAdd(entry_price, RMul(atr, R(2)))
        take_profit == IF direction = "long"
                       THEN RAdd(entry_price, RMul(atr, R(4)))
                       ELSE RSub(entry_price, RMul(atr, R(4)))
    IN  [id |-> Len(selfpos) + 1,
         direction |-> direction,
         entry_time |-> bar.name,
         entry_price |-> entry_price,
         quantity |-> quantity,
         stop_loss |-> stop_loss,
         take_profit |-> take_profit,
         entry_index |-> index,
         status |-> "open"]

\* Variant of open_position: the position is recorded at the index of the
\* previous bar.
open_position_previous_index(signal, bar, index, cap, selfpos) ==
    LET direction == IF signal = 1 THEN "long" ELSE "short"
        entry_price == bar.close
        position_value == RMul(cap, <<1, 10>>)
        quantity == RDiv(position_value, entry_price)
        atr == IF ~isna(bar.atr) THEN bar.atr ELSE RMul(entry_price, <<1, 50>>)
        stop_loss == IF direction = "long"
                     THEN RSub(entry_price, RMul(atr, R(2)))
                     ELSE RAdd(entry_price, RMul(atr, R(2)))
        take_profit == IF direction = "long"
                       THEN RAdd(entry_price, RMul(atr, R(4)))
                       ELSE RSub(entry_price, RMul(atr, R(4)))
    IN  [id |-> Len(selfpos) + 1,
         direction |-> direction,
         entry_time |-> bar.name,
         entry_price |-> entry_price,
         quantity |-> quantity,
         stop_loss |-> stop_loss,
         take_profit |-> take_profit,
         entry_index |-> index - 1,
         status |-> "open"]

\* Variant of open_position: the target is as far from the entry as the stop.
open_position_even_target(signal, bar, index, cap, selfpos) ==
    LET direction == IF signal = 1 THEN "long" ELSE "short"
        entry_price == bar.close
        position_value == RMul(cap, <<1, 10>>)
        quantity == RDiv(position_value, entry_price)
        atr == IF ~isna(bar.atr) THEN bar.atr ELSE RMul(entry_price, <<1, 50>>)
        stop_loss == IF direction = "long"
                     THEN RSub(entry_price, RMul(atr, R(2)))
                     ELSE RAdd(entry_price, RMul(atr, R(2)))
        take_profit == IF direction = "long"
                       THEN RAdd(entry_price, RMul(atr, R(2)))
                       ELSE RSub(entry_price, RMul(atr, R(2)))
    IN  [id |-> Len(selfpos) + 1,
         direction |-> direction,
         entry_time |-> bar.name,
         entry_price |-> entry_price,
         quantity |-> quantity,
         stop_loss |-> stop_loss,
         take_profit |-> take_profit,
         entry_index |-> index,
         status |-> "open"]

\* Variant of open_position: without an ATR on the bar, 1% of the entry price
\* stands in for it.
open_position_one_percent(signal, bar, index, cap, selfpos) ==
    LET direction == IF signal = 1 THEN "long" ELSE "short"
        entry_price == bar.close
        position_value == RMul(cap, <<1, 10>>)
        quantity == RDiv(position_value, entry_price)
        atr == IF ~isna(bar.atr) THEN bar.atr ELSE RMul(entry_price, <<1, 100>>)
        stop_loss == IF direction = "long"
                     THEN RSub(entry_price, RMul(atr, R(2)))
                     ELSE RAdd(entry_price, RMul(atr, R(2)))
        take_profit == IF direction = "long"
                       THEN RAdd(entry_price, RMul(atr, R(4)))
                       ELSE RSub(entry_price, RMul(atr, R(4)))
    IN  [id |-> Len(selfpos) + 1,
         direction |-> direction,
         entry_time |-> bar.name,
         entry_price |-> entry_price,
         quantity |-> quantity,
         stop_loss |-> stop_loss,
         take_profit |-> take_profit,
         entry_index |-> index,
         status |-> "open"]

open_position(signal, bar, index, cap, selfpos) ==
    LET direction == IF signal = 1 THEN "long" ELSE "short"
        entry_price == bar.close
        position_value == RMul(cap, <<1, 10>>)
        quantity == RDiv(position_value, entry_price)
        atr == IF ~isna(bar.atr) THEN bar.atr ELSE RMul(entry_price, <<1, 50>>)
        stop_loss == IF direction = "long"
                     THEN RSub(entry_price, RMul(atr, R(2)))
                     ELSE RAdd(entry_price, RMul(atr, R(2)))
        take_profit == IF direction = "long"
                       THEN RAdd(entry_price, RMul(atr, R(4)))
                       ELSE RSub(entry_price, RMul(atr, R(4)))
    IN  [id |-> Len(selfpos) + 1,
         direction |-> direction,
         entry_time |-> bar.name,
         entry_price |-> entry_price,
         quantity |-> quantity,
         stop_loss |-> stop_loss,
         take_profit |-> take_profit,
         entry_index |-> index,
         status |-> "open"]

\* Variant of position_pnl: the two directions are taken for one another.
position_pnl_swapped(position, price) ==
    IF position.direction = "short"
    THEN RMul(RSub(price, position.entry_price), position.quantity)
    ELSE RMul(RSub(position.entry_price, price), position.quantity)

position_pnl(position, price) ==
    IF position.direction = "long"
    THEN RMul(RSub(price, position.entry_price), position.quantity)
    ELSE RMul(RSub(position.entry_price, price), position.quantity)

\* Variant of exit_reason_of: every closure is labelled a signal exit.
exit_reason_signal_only(position, exit_price) ==
    "signal"

\* Variant of exit_reason_of: the target is looked at before the stop.
exit_reason_target_first(position, exit_price) ==
    IF RGe(exit_price, position.take_profit) /\ position.direction = "long"
    THEN "take_profit"
    ELSE IF RLe(exit_price, position.take_profit) /\ position.direction = "short"
    THEN "take_profit"
    ELSE IF RLe(exit_price, position.stop_loss) /\ position.direction = "long"
    THEN "stop_loss"
    ELSE IF RGe(exit_price, position.stop_loss) /\ position.direction = "short"
    THEN "stop_loss"
    ELSE "signal"

exit_reason_of(position, exit_price) ==
    IF RLe(exit_price, position.stop_loss) /\ position.direction = "long"
    THEN "stop_loss"
    ELSE IF RGe(exit_price, position.stop_loss) /\ position.direction = "short"
    THEN "stop_loss"
    ELSE IF RGe(exit_price, position.take_profit) /\ position.direction = "long"
    THEN "take_profit"
    ELSE IF RLe(exit_price, position.take_profit) /\ position.direction = "short"
    THEN "take_profit"
    ELSE "signal"

\* Variant of exit_price_of: a closure on a bar whose range reaches the stop
\* is filled at the stop level.
exit_price_at_level(position, bar) ==
    IF position.direction = "long" /\ RLe(bar.low, position.stop_loss)
    THEN position.stop_loss
    ELSE IF position.direction = "short" /\ RGe(bar.high, position.stop_loss)
    THEN position.stop_loss
    ELSE bar.close

\* Line 218: the fill price of a closure.
exit_price_of(position, bar) ==
    bar.close

close_position(position, bar, index) ==
    LET exit_price == exit_price_of(position, bar)
        exit_time == bar.name
        pnl == position_pnl(position, exit_price)
        entry_value == RMul(position.entry_price, position.quantity)
        exit_value == RMul(exit_price, position.quantity)
    IN  [position_id |-> position.id,
         direction |-> position.direction,
         entry_time |-> position.entry_time,
         exit_time |-> exit_time,
         entry_price |-> position.entry_price,
         exit_price |-> exit_price,
         quantity |-> position.quantity,
         entry_value |-> entry_value,
         exit_value |-> exit_value,
         pnl |-> pnl,
         pnl_pct |-> RMul(RDiv(pnl, entry_value), Hundred),
         exit_reason |-> exit_reason_of(position, exit_price),
         duration |-> exit_time - position.entry_time,
         stop_loss |-> position.stop_loss,
         take_profit |-> position.take_profit]

check_stop_loss(position, bar) ==
    IF position.direction = "long"
    THEN RLe(bar.low, position.stop_loss)
    ELSE RGe(bar.high, position.stop_loss)

\* Variant of calculate_unrealized_pnl: the position is marked at the bar's high.
calculate_unrealized_pnl_at_high(position, bar) ==
    position_pnl(position, bar.high)

\* Variant of calculate_unrealized_pnl: every position is marked as a Long.
calculate_unrealized_pnl_as_long(position, bar) ==
    RMul(RSub(bar.close, position.entry_price), position.quantity)

calculate_unrealized_pnl(position, bar) ==
    position_pnl(position, bar.close)

(* ----------------------------- ExecutionLoop --------------------------- *)

\* Variant of should_exit: the position is also closed when the bar's range
\* reaches the take-profit level.
should_exit_at_target(position, exit_sig, bar) ==
    \/ exit_sig # 0
    \/ check_stop_loss(position, bar)
    \/ IF position.direction = "long"
       THEN RGe(bar.high, position.take_profit)
       ELSE RLe(bar.low, position.take_profit)

\* Variant of should_exit: an exit signal closes the position only when it
\* points against the position's direction.
should_exit_against(position, exit_sig, bar) ==
    \/ position.direction = "long" /\ exit_sig = -1
    \/ position.direction = "short" /\ exit_sig = 1
    \/ check_stop_loss(position, bar)

\* Line 134: the exit condition of an open position.
should_exit(position, exit_sig, bar) ==
    exit_sig # 0 \/ check_stop_loss(position, bar)

\* Lines 139-143: capital after a closed trade.
update_capital(cap, pnl) ==
    IF RGt(pnl, Zero) THEN RAdd(cap, pnl) ELSE RSub(cap, RAbs(pnl))

\* Variant of after_exit: the slot is not cleared after a closure.
after_exit_kept(cur, exits) ==
    cur

\* Line 145: the position slot after the exit phase.
after_exit(cur, exits) ==
    IF exits THEN <<>> ELSE cur

\* Variant of should_enter: the entry signal is followed whether or not a
\* position is open.
should_enter_any(cur, entry_sig) ==
    entry_sig # 0

\* Variant of should_enter: a flat run enters on every bar, whatever the
\* entry signal is.
should_enter_when_flat(cur, entry_sig) ==
    cur = <<>>

\* Lines 148-151: the entry condition.
should_enter(cur, entry_sig) ==
    cur = <<>> /\ entry_sig # 0

\* Variant of equity_point: the equity is the realized capital alone.
equity_point_realized(cur, bar, cap) ==
    LET unrealized_pnl ==
            IF cur # <<>> THEN calculate_unrealized_pnl(cur[1], bar) ELSE Zero
    IN  [timestamp |-> bar.name,
         equity |-> cap,
         capital |-> cap,
         unrealized_pnl |-> unrealized_pnl]

\* Variant of equity_point: the 'capital' field carries the marked-to-market
\* equity instead of the realized capital.
equity_point_marked(cur, bar, cap) ==
    LET unrealized_pnl ==
            IF cur # <<>> THEN calculate_unrealized_pnl(cur[1], bar) ELSE Zero
    IN  [timestamp |-> bar.name,
         equity |-> IF cur # <<>> THEN RAdd(cap, unrealized_pnl) ELSE cap,
         capital |-> IF cur # <<>> THEN RAdd(cap, unrealized_pnl) ELSE cap,
         unrealized_pnl |-> unrealized_pnl]

\* Lines 158-170: the equity point of a bar.
equity_point(cur, bar, cap) ==
    LET unrealized_pnl ==
            IF cur # <<>> THEN calculate_unrealized_pnl(cur[1], bar) ELSE Zero
    IN  [timestamp |-> bar.name,
         equity |-> IF cur # <<>> THEN RAdd(cap, unrealized_pnl) ELSE cap,
         capital |-> cap,
         unrealized_pnl |-> unrealized_pnl]

\* Variant of remaining_trade: the position still open is closed at the high
\* of the last bar.
remaining_trade_at_high(cur, last_bar, index) ==
    IF cur # <<>>
    THEN <<close_position(cur[1], [last_bar EXCEPT !.close = last_bar.high],
                          index)>>
    ELSE <<>>

\* Variant of remaining_trade: the position still open is not closed.
remaining_trade_dropped(cur, last_bar, index) ==
    <<>>

\* Lines 173-176: the trade of a position still open after the loop.
remaining_trade(cur, last_bar, index) ==
    IF cur # <<>> THEN <<close_position(cur[1], last_bar, index)>> ELSE <<>>

(* --------------------------- PerformanceAnalyzer ----------------------- *)

\* +infinity, float('inf').
Inf == <<1, 0>>

\* Variant of keeps: a trade with a pnl of zero counts as a win.
keeps_zero_as_win(rows, p) ==
    CASE rows = "all" -> TRUE
      [] rows = "win" -> RGe(p, Zero)
      [] rows = "loss" -> RLt(p, Zero)

\* The row filters of lines 291-305: all rows, pnl > 0, pnl < 0.
keeps(rows, p) ==
    CASE rows = "all" -> TRUE
      [] rows = "win" -> RGt(p, Zero)
      [] rows = "loss" -> RLt(p, Zero)

\* Variant of sum_pnl: the magnitudes of the pnl values are summed.
RECURSIVE sum_pnl_abs(_, _)
sum_pnl_abs(ts, rows) ==
    IF ts = <<>> THEN Zero
    ELSE IF keeps(rows, Head(ts).pnl)
         THEN RAdd(RAbs(Head(ts).pnl), sum_pnl_abs(Tail(ts), rows))
         ELSE sum_pnl_abs(Tail(ts), rows)

\* pandas Series.sum() of the 'pnl' column over the selected rows.
RECURSIVE sum_pnl(_, _)
sum_pnl(ts, rows) ==
    IF ts = <<>> THEN Zero
    ELSE IF keeps(rows, Head(ts).pnl)
         THEN RAdd(Head(ts).pnl, sum_pnl(Tail(ts), rows))
         ELSE sum_pnl(Tail(ts), rows)

\* len() of the selected rows of the trades frame.
RECURSIVE count_pnl(_, _)
count_pnl(ts, rows) ==
    IF ts = <<>> THEN 0
    ELSE (IF keeps(rows, Head(ts).pnl) THEN 1 ELSE 0) + count_pnl(Tail(ts), rows)

\* Variant of min_drawdown: the fall is measured from the first equity of the
\* curve, not from the highest equity seen so far.
RECURSIVE min_drawdown_from_first(_, _, _)
min_drawdown_from_first(eq, peak, low) ==
    IF eq = <<>> THEN low
    ELSE LET d == RMul(RDiv(RSub(Head(eq).equity, peak), peak), Hundred)
         IN  min_drawdown_from_first(Tail(eq), peak, RMin(low, d))

\* Lines 351-353: the minimum over the curve of (equity - peak) / peak * 100,
\* with peak the expanding maximum; 'peak' and 'low' carry the state of the scan.
RECURSIVE min_drawdown(_, _, _)
min_drawdown(eq, peak, low) ==
    IF eq = <<>> THEN low
    ELSE LET p == RMax(peak, Head(eq).equity)
             d == RMul(RDiv(RSub(Head(eq).equity, p), p), Hundred)
         IN  min_drawdown(Tail(eq), p, RMin(low, d))

calculate_max_drawdown(eq) ==
    IF eq = <<>> THEN Zero
    ELSE RAbs(min_drawdown(eq, eq[1].equity, Zero))

\* Variant of final_equity_of: the realized capital of the last point is taken.
final_equity_realized(eq, initial_equity) ==
    IF eq # <<>> THEN eq[Len(eq)].capital ELSE initial_equity

\* Line 313: the equity of the last equity point.
final_equity_of(eq, initial_equity) ==
    IF eq # <<>> THEN eq[Len(eq)].equity ELSE initial_equity

\* Variant of no_trades: a ledger without a winning trade counts as empty.
no_trades_won(ts) ==
    count_pnl(ts, "win") = 0

\* Line 283: not results['trades'].
no_trades(ts) ==
    ts = <<>>

\* Variant of profit_factor_of: without losses the factor is 0.
profit_factor_or_zero(gross_profit, gross_loss) ==
    IF RGt(gross_loss, Zero) THEN RDiv(gross_profit, gross_loss) ELSE Zero

\* Line 301.
profit_factor_of(gross_profit, gross_loss) ==
    IF RGt(gross_loss, Zero) THEN RDiv(gross_profit, gross_loss) ELSE Inf

\* Lines 281-344.  The Sharpe ratio (a square root) is left out.
calculate_performance_metrics(ts, eq, initial_capital) ==
    IF no_trades(ts) THEN <<>>
    ELSE
    LET total_trades == Len(ts)
        winning_trades == count_pnl(ts, "win")
        losing_trades == count_pnl(ts, "loss")
        total_pnl == sum_pnl(ts, "all")
        gross_profit == sum_pnl(ts, "win")
        gross_loss == RAbs(sum_pnl(ts, "loss"))
        initial_equity == R(initial_capital)
        final_equity == final_equity_of(eq, initial_equity)
        total_return ==
            RMul(RDiv(RSub(final_equity, initial_equity), initial_equity), Hundred)
        duration_hours ==
            IF eq # <<>> THEN eq[Len(eq)].timestamp - eq[1].timestamp ELSE 0
    IN  <<[total_trades |-> total_trades,
           winning_trades |-> winning_trades,
           losing_trades |-> losing_trades,
           win_rate |-> IF total_trades > 0
                        THEN RMul(<<winning_trades, total_trades>>, Hundred)
                        ELSE Zero,
           total_pnl |-> total_pnl,
           gross_profit |-> gross_profit,
           gross_loss |-> gross_loss,
           profit_factor |-> profit_factor_of(gross_profit, gross_loss),
           avg_win |-> IF winning_trades > 0
                       THEN RDiv(gross_profit, R(winning_trades)) ELSE Zero,
           avg_loss |-> IF losing_trades > 0
                        THEN RDiv(sum_pnl(ts, "loss"), R(losing_trades)) ELSE Zero,
           max_drawdown |-> calculate_max_drawdown(eq),
           total_return |-> total_return,
           duration_hours |-> duration_hours,
           hourly_return |-> IF duration_hours > 0
                             THEN RDiv(total_return, R(duration_hours)) ELSE Zero,
           initial_capital |-> initial_equity,
           final_capital |-> final_equity]>>

(* ----------------------- __init__ and reset() -------------------------- *)

\* Variant of reset: the capital is left as it is.
reset_keeps_capital(b) ==
    [initial_capital |-> b.initial_capital,
     capital |-> b.capital,
     trades |-> <<>>,
     equity_curve |-> <<>>,
     current_positions |-> <<>>]

\* Lines 20-26, for the attributes other than positions (line 23).
reset(b) ==
    [initial_capital |-> b.initial_capital,
     capital |-> b.initial_capital,
     trades |-> <<>>,
     equity_curve |-> <<>>,
     current_positions |-> <<>>]

\* Lines 13-18: the attributes after __init__, which ends with reset().
new_backtester(initial_capital) ==
    reset([initial_capital |-> R(initial_capital)])

(* ------------------------------ the run -------------------------------- *)

\* Lines 116-124: the state at the top of the loop of a run over a series of
\* one of the lengths 'lens'; 'twins' are the second runs carried along.
InitRun(lens, twins) ==
    /\ pc = "loop"
    /\ n \in lens
    /\ i = loop_start
    /\ current_bar = Bar0
    /\ entry_signal = 0
    /\ exit_signal = 0
    /\ capital = R(INITIAL_CAPITAL)
    /\ current_position = <<>>
    /\ trades = <<>>
    /\ equity_curve = <<>>
    /\ positions = <<>>
    /\ self_positions = <<>>
    /\ performance = <<>>
    /\ history = <<>>
    /\ twin \in twins
    /\ run = 1
    /\ collected = <<>>
    /\ fetched = MIN_CANDLES
    /\ portfolio = <<>>
    /\ self_state = new_backtester(INITIAL_CAPITAL)

Init == InitRun(1..MaxBars, {<<>>})

\* Variant of bar_step: the equity point is taken at the top of the
\* iteration, before the exit and entry phases.
bar_step_point_first(cur, cap, bar, en, ex, idx, selfpos) ==
    LET exits == cur # <<>> /\ should_exit(cur[1], ex, bar)
        trade_result == close_position(cur[1], bar, idx)
        cap1 == IF exits THEN update_capital(cap, trade_result.pnl) ELSE cap
        cur1 == after_exit(cur, exits)
        enters == should_enter(cur1, en)
        opened == open_position(en, bar, idx, cap1, selfpos)
        cur2 == IF enters THEN <<opened>> ELSE cur1
    IN  [trade |-> IF exits THEN <<trade_result>> ELSE <<>>,
         capital |-> cap1,
         opened |-> IF enters THEN <<opened>> ELSE <<>>,
         current_position |-> cur2,
         point |-> equity_point(cur, bar, cap)]

\* Lines 130-170: the body of the loop for bar 'bar' at index 'idx': the exit
\* phase, the entry phase, then the equity point.
bar_step(cur, cap, bar, en, ex, idx, selfpos) ==
    LET exits == cur # <<>> /\ should_exit(cur[1], ex, bar)
        trade_result == close_position(cur[1], bar, idx)
        cap1 == IF exits THEN update_capital(cap, trade_result.pnl) ELSE cap
        cur1 == after_exit(cur, exits)
        enters == should_enter(cur1, en)
        opened == open_position(en, bar, idx, cap1, selfpos)
        cur2 == IF enters THEN <<opened>> ELSE cur1
    IN  [trade |-> IF exits THEN <<trade_result>> ELSE <<>>,
         capital |-> cap1,
         opened |-> IF enters THEN <<opened>> ELSE <<>>,
         current_position |-> cur2,
         point |-> equity_point(cur2, bar, cap1)]

\* The second run at the top of its loop, over the series with row 0 'row0'.
twin_start(row0) ==
    [differs |-> "row 0",
     row0 |-> row0, current_bar |-> row0.bar, capital |-> R(INITIAL_CAPITAL),
     current_position |-> <<>>, trades |-> <<>>, equity_curve |-> <<>>,
     positions |-> <<>>]

\* Lines 130-170 in the second run, on row 'row' at index 'idx'.
twin_step(t, row, idx, selfpos) ==
    LET s == bar_step(t.current_position, t.capital, row.bar, row.entry,
                      row.exit, idx, selfpos)
    IN  [differs |-> t.differs,
         row0 |-> t.row0,
         current_bar |-> row.bar,
         capital |-> s.capital,
         current_position |-> s.current_position,
         trades |-> t.trades \o s.trade,
         equity_curve |-> Append(t.equity_curve, s.point),
         positions |-> t.positions \o s.opened]

\* The rows the series of the second run may carry at index 'idx', where the
\* series of the run carries 'row': its own row 0 and the same rows from 1 on,
\* or the same rows up to the sign of a nonzero exit signal.
twin_rows(t, idx, row) ==
    IF t.differs = "row 0"
    THEN {IF idx = 0 THEN t.row0 ELSE row}
    ELSE {row, [row EXCEPT !.exit = -row.exit]}

\* Lines 172-176 in the second run.
twin_close(t, last_index) ==
    [t EXCEPT !.trades =
        @ \o remaining_trade(t.current_position, t.current_bar, last_index)]

\* Lines 126-170: one iteration of the loop, on the row the series carries at
\* index i.  Rows from index 1 on are drawn from the given sets when the loop
\* reads them; row 0 is Bar0 with no signal.
Iterate(closes, wicks, atrs, entries, exits, recorded) ==
    /\ pc = "loop"
    /\ i < n
    /\ \E close \in closes, wick \in wicks, atr \in atrs,
          en \in entries, ex \in exits :
        \E row \in {IF i = 0
                    THEN [bar |-> Bar0, entry |-> 0, exit |-> 0]
                    ELSE [bar |-> Bar(i, close, wick, atr),
                          entry |-> en, exit |-> ex]} :
        \E s \in {bar_step(current_position, capital, row.bar, row.entry,
                           row.exit, i, self_positions)} :
            /\ current_bar' = row.bar
            /\ entry_signal' = row.entry
            /\ exit_signal' = row.exit
            /\ trades' = trades \o s.trade
            /\ capital' = s.capital
            /\ positions' = positions \o s.opened
            /\ current_position' = s.current_position
            /\ equity_curve' = Append(equity_curve, s.point)
            /\ history' = IF recorded THEN Append(history, row) ELSE history
            /\ IF twin = <<>>
               THEN twin' = twin
               ELSE \E twin_row \in twin_rows(twin[1], i, row) :
                        twin' = <<twin_step(twin[1], twin_row, i,
                                            self_positions)>>
    /\ i' = i + 1
    /\ UNCHANGED <<pc, n, self_positions, performance, run, collected,
                   fetched, portfolio,
                   self_state>>

LoopIteration == Iterate(Closes, Wicks, Atrs, Signals, Signals, FALSE)

\* Lines 172-178: close any remaining position on the last bar and return.
CloseRemaining ==
    /\ pc = "loop"
    /\ i >= n
    /\ trades' = trades \o remaining_trade(current_position, current_bar, n - 1)
    /\ twin' = IF twin = <<>> THEN twin ELSE <<twin_close(twin[1], n - 1)>>
    /\ pc' = "returned"
    /\ UNCHANGED <<n, i, current_bar, entry_signal, exit_signal, capital,
                   current_position, equity_curve, positions, self_positions,
                   performance, history, run, collected, fetched, portfolio,
                   self_state>>

\* Line 60 of run_backtest: the metrics of the returned results.
CalculatePerformanceMetrics ==
    /\ pc = "returned"
    /\ performance' =
           calculate_performance_metrics(trades, equity_curve, INITIAL_CAPITAL)
    /\ pc' = "done"
    /\ UNCHANGED <<n, i, current_bar, entry_signal, exit_signal, capital,
                   current_position, trades, equity_curve, positions,
                   self_positions, history, twin, run, collected, fetched,
                   portfolio,
                   self_state>>

Next == LoopIteration \/ CloseRemaining \/ CalculatePerformanceMetrics

Spec == Init /\ [][Next]_vars

(* --------------------- runs that record their inputs ------------------- *)

InitRecorded == InitRun(1..MaxSideBars, {<<>>})

LoopIterationRecorded ==
    Iterate(Closes, Wicks, AtrsRecorded, EntriesRecorded, Signals, TRUE)

NextRecorded ==
    LoopIterationRecorded \/ CloseRemaining \/ CalculatePerformanceMetrics

SpecRecorded == InitRecorded /\ [][NextRecorded]_vars

(* ------------------------ runs over wider inputs ----------------------- *)

InitWide == InitRun(1..MaxSideBars, {<<>>})

LoopIterationWide == Iterate(Closes, Wicks, AtrsWide, Signals, Signals, FALSE)

NextWide == LoopIterationWide \/ CloseRemaining \/ CalculatePerformanceMetrics

SpecWide == InitWide /\ [][NextWide]_vars

InitGap == InitRun(1..MaxSideBars, {<<>>})

LoopIterationGap == Iterate(ClosesGap, Wicks, {NaN}, Signals, Signals, FALSE)

NextGap == LoopIterationGap \/ CloseRemaining \/ CalculatePerformanceMetrics

SpecGap == InitGap /\ [][NextGap]_vars

(* ------------- a run beside the same run with another row 0 ------------ *)

InitTwin == InitRun(1..MaxSideBars, {<<twin_start(row0)>> : row0 \in AltRows0})

SpecTwin == InitTwin /\ [][Next]_vars

(* -------- a run beside the same run with other exit signal signs ------- *)

InitExitSign ==
    InitRun(1..MaxSideBars,
            {<<[twin_start([bar |-> Bar0, entry |-> 0, exit |-> 0])
                  EXCEPT !.differs = "exit sign"]>>})

SpecExitSign == InitExitSign /\ [][Next]_vars

(* ------------------- run_multi_timeframe_backtest ---------------------- *)

\* Variant of enough_data: any data at all is enough.
enough_data_if_any(len) ==
    len # 0

\* Lines 36 and 49 of run_backtest: the data is neither empty nor shorter
\* than the least number of candles.
enough_data(len) ==
    ~(len = 0) /\ ~(len < MIN_CANDLES)

\* The backtester after __init__ (lines 13-17), before the first run_backtest
\* call of the sweep; the locals of _execute_backtest do not exist yet and
\* carry the values of a series without evaluated bars.
InitSweep ==
    /\ pc = "idle"
    /\ n = 1
    /\ i = loop_start
    /\ current_bar = Bar0
    /\ entry_signal = 0
    /\ exit_signal = 0
    /\ capital = R(INITIAL_CAPITAL)
    /\ current_position = <<>>
    /\ trades = <<>>
    /\ equity_curve = <<>>
    /\ positions = <<>>
    /\ self_positions = <<>>
    /\ performance = <<>>
    /\ history = <<>>
    /\ twin = <<>>
    /\ run = 0
    /\ collected = <<>>
    /\ fetched = 0
    /\ portfolio = <<>>
    /\ self_state = new_backtester(INITIAL_CAPITAL)

\* Variant of BeginRun: the run goes on with the capital, the position and
\* the results its predecessor left behind.
BeginRunOnLeftovers ==
    /\ pc = "idle"
    /\ run < MaxRuns
    /\ run' = run + 1
    /\ fetched' \in {len \in DataLengths : enough_data(len)}
    /\ n' \in 1..MaxSideBars
    /\ i' = loop_start
    /\ current_bar' = Bar0
    /\ entry_signal' = 0
    /\ exit_signal' = 0
    /\ performance' = <<>>
    /\ pc' = "loop"
    /\ UNCHANGED <<capital, current_position, trades, equity_curve, positions,
                   self_positions, history, twin, collected, portfolio,
                   self_state>>

\* Lines 79 and 34-57, then lines 112-124: the next run_backtest call of the
\* sweep gets a series long enough and enters _execute_backtest.
BeginRun ==
    /\ pc = "idle"
    /\ run < MaxRuns
    /\ run' = run + 1
    /\ fetched' \in {len \in DataLengths : enough_data(len)}
    /\ n' \in 1..MaxSideBars
    /\ i' = loop_start
    /\ current_bar' = Bar0
    /\ entry_signal' = 0
    /\ exit_signal' = 0
    /\ capital' = R(INITIAL_CAPITAL)
    /\ current_position' = <<>>
    /\ trades' = <<>>
    /\ equity_curve' = <<>>
    /\ positions' = <<>>
    /\ performance' = <<>>
    /\ pc' = "loop"
    /\ UNCHANGED <<self_positions, history, twin, collected, portfolio,
                   self_state>>

\* Lines 36-38 and 49-51, then line 80: the run_backtest call gets no data or
\* too little and returns {}; the sweep neither keeps it nor calls reset().
SkipRun ==
    /\ pc = "idle"
    /\ run < MaxRuns
    /\ run' = run + 1
    /\ fetched' \in {len \in DataLengths : ~enough_data(len)}
    /\ UNCHANGED <<pc, n, i, current_bar, entry_signal, exit_signal, capital,
                   current_position, trades, equity_curve, positions,
                   self_positions, performance, history, twin, collected,
                   portfolio,
                   self_state>>

\* Lines 80-82: the sweep keeps the result of the run and calls reset().
FinishRun ==
    /\ pc = "done"
    /\ collected' = Append(collected, Len(trades))
    /\ self_positions' = <<>>
    /\ self_state' = reset(self_state)
    /\ pc' = "idle"
    /\ UNCHANGED <<n, i, current_bar, entry_signal, exit_signal, capital,
                   current_position, trades, equity_curve, positions,
                   performance, history, twin, run, fetched, portfolio>>

\* The runs of a sweep read bars without wicks and without a computed range.
LoopIterationSweep == Iterate(Closes, {0}, {NaN}, Signals, Signals, FALSE)

NextSweep ==
    \/ BeginRun
    \/ SkipRun
    \/ LoopIterationSweep
    \/ CloseRemaining
    \/ CalculatePerformanceMetrics
    \/ FinishRun

SpecSweep == InitSweep /\ [][NextSweep]_vars

(* ---------------- a second execution over the same series -------------- *)

\* _execute_backtest is called a second time on the same backtester, with the
\* analysis (bars and signal streams) of the first call; 'history' holds the
\* rows of that analysis from index 1 on, and 'collected' the results
\* dictionary the first call returned.

InitAgain == InitRun(1..MaxSideBars, {<<>>})

\* Lines 126-170 of the first call: the rows are drawn and kept.
LoopIterationFirst ==
    /\ run = 1
    /\ Iterate(Closes, Wicks, {NaN}, Signals, Signals, TRUE)

\* Variant of ExecuteAgain: the second call goes on from the capital the
\* first call ended with.
ExecuteAgainOnLeftovers ==
    /\ pc = "returned"
    /\ run = 1
    /\ collected' = <<[trades |-> trades, positions |-> positions,
                       equity_curve |-> equity_curve]>>
    /\ run' = 2
    /\ i' = loop_start
    /\ current_bar' = Bar0
    /\ entry_signal' = 0
    /\ exit_signal' = 0
    /\ current_position' = <<>>
    /\ trades' = <<>>
    /\ equity_curve' = <<>>
    /\ positions' = <<>>
    /\ pc' = "loop"
    /\ UNCHANGED <<n, capital, self_positions, performance, history, twin,
                   fetched, portfolio,
                   self_state>>

\* Line 178 of the first call, then lines 112-124 of the second: the results
\* are returned and the second call starts from fresh locals.
ExecuteAgain ==
    /\ pc = "returned"
    /\ run = 1
    /\ collected' = <<[trades |-> trades, positions |-> positions,
                       equity_curve |-> equity_curve]>>
    /\ run' = 2
    /\ i' = loop_start
    /\ current_bar' = Bar0
    /\ entry_signal' = 0
    /\ exit_signal' = 0
    /\ capital' = R(INITIAL_CAPITAL)
    /\ current_position' = <<>>
    /\ trades' = <<>>
    /\ equity_curve' = <<>>
    /\ positions' = <<>>
    /\ pc' = "loop"
    /\ UNCHANGED <<n, self_positions, performance, history, twin, fetched,
                   portfolio,
                   self_state>>

\* Lines 126-170 of the second call: row i is the row the first call read.
LoopIterationAgain ==
    /\ run = 2
    /\ i < n
    /\ Iterate({history[i].bar.close[1]},
               {history[i].bar.high[1] - history[i].bar.close[1]},
               {history[i].bar.atr}, {history[i].entry}, {history[i].exit},
               FALSE)

NextAgain ==
    \/ LoopIterationFirst
    \/ ExecuteAgain
    \/ LoopIterationAgain
    \/ CloseRemaining

SpecAgain == InitAgain /\ [][NextAgain]_vars

(* ------------------------------- reset() ------------------------------- *)

\* reset() is called on a backtester whose attributes hold anything: 'run'
\* counts the calls, and 'history' keeps the attributes each call found.

\* Values of initial_capital given to __init__.
InitialCapitals == {R(INITIAL_CAPITAL), R(5000)}

\* Values self.capital may hold before a call.
PriorCapitals == {R(-1000), R(0), R(5000), R(INITIAL_CAPITAL), R(10250)}

\* Values the lists and the dictionary of self may hold before a call: empty,
\* or with an entry.
PriorEntries == {<<>>, <<1>>}

InitReset ==
    /\ pc = "idle"
    /\ n = 1
    /\ i = loop_start
    /\ current_bar = Bar0
    /\ entry_signal = 0
    /\ exit_signal = 0
    /\ capital = R(INITIAL_CAPITAL)
    /\ current_position = <<>>
    /\ trades = <<>>
    /\ equity_curve = <<>>
    /\ positions = <<>>
    /\ self_positions \in PriorEntries
    /\ performance = <<>>
    /\ history = <<>>
    /\ twin = <<>>
    /\ run = 0
    /\ collected = <<>>
    /\ fetched = 0
    /\ portfolio = <<>>
    /\ self_state \in [initial_capital : InitialCapitals,
                       capital : PriorCapitals,
                       trades : PriorEntries,
                       equity_curve : PriorEntries,
                       current_positions : PriorEntries]

\* Lines 20-26.
Reset ==
    /\ pc = "idle"
    /\ run < MaxRuns
    /\ run' = run + 1
    /\ history' = Append(history, [state |-> self_state,
                                   positions |-> self_positions])
    /\ self_positions' = <<>>
    /\ self_state' = reset(self_state)
    /\ UNCHANGED <<pc, n, i, current_bar, entry_signal, exit_signal, capital,
                   current_position, trades, equity_curve, positions,
                   performance, twin, collected, fetched, portfolio>>

NextReset == Reset

SpecReset == InitReset /\ [][NextReset]_vars

(* --------------------------- PortfolioAggregator ----------------------- *)

\* Lines 372-379: the trades of all kept results, in the order of the runs.
\* (The tags 'portfolio_symbol' and 'portfolio_timeframe' are left out.)
RECURSIVE all_trades_of(_)
all_trades_of(results) ==
    IF results = <<>> THEN <<>>
    ELSE Head(results).trades \o all_trades_of(Tail(results))

\* Variant of total_capital_of: a run without trades counts with the initial
\* capital of the backtester in the sum of the initial capitals.
RECURSIVE total_capital_of_default_initial(_, _)
total_capital_of_default_initial(results, field) ==
    IF results = <<>> THEN Zero
    ELSE RAdd(IF Head(results).performance = <<>>
              THEN (IF field = "initial_capital" THEN R(INITIAL_CAPITAL)
                    ELSE Zero)
              ELSE IF field = "initial_capital"
                   THEN Head(results).performance[1].initial_capital
                   ELSE Head(results).performance[1].final_capital,
              total_capital_of_default_initial(Tail(results), field))

\* Lines 381-384: the sum over the kept results of perf.get(field, 0), where
\* the performance of a run without trades is {}.
RECURSIVE total_capital_of(_, _)
total_capital_of(results, field) ==
    IF results = <<>> THEN Zero
    ELSE RAdd(IF Head(results).performance = <<>> THEN Zero
              ELSE IF field = "initial_capital"
                   THEN Head(results).performance[1].initial_capital
                   ELSE Head(results).performance[1].final_capital,
              total_capital_of(Tail(results), field))

\* Variant of portfolio_is_empty: the portfolio is empty only without runs.
portfolio_without_runs(results, all_trades) ==
    results = <<>>

\* Line 386: not all_trades.
portfolio_is_empty(results, all_trades) ==
    all_trades = <<>>

\* Variant of portfolio_win_rate: the winning trades are counted per run.
portfolio_win_rate_per_run(results, all_trades) ==
    IF Len(all_trades) > 0
    THEN RMul(<<count_pnl(all_trades, "win"), Len(results)>>, Hundred)
    ELSE Zero

\* Lines 392-394: the winning trades over the pooled trades, in percent.
portfolio_win_rate(results, all_trades) ==
    IF Len(all_trades) > 0
    THEN RMul(<<count_pnl(all_trades, "win"), Len(all_trades)>>, Hundred)
    ELSE Zero

\* Lines 366-407.
calculate_portfolio_performance(results) ==
    LET all_trades == all_trades_of(results)
        total_initial_capital == total_capital_of(results, "initial_capital")
        total_final_capital == total_capital_of(results, "final_capital")
    IN  IF portfolio_is_empty(results, all_trades) THEN <<>>
        ELSE <<[total_trades |-> Len(all_trades),
                winning_trades |-> count_pnl(all_trades, "win"),
                win_rate |-> portfolio_win_rate(results, all_trades),
                total_pnl |-> sum_pnl(all_trades, "all"),
                total_return |->
                    IF RGt(total_initial_capital, Zero)
                    THEN RMul(RDiv(RSub(total_final_capital,
                                        total_initial_capital),
                                   total_initial_capital), Hundred)
                    ELSE Zero,
                initial_capital |-> total_initial_capital,
                final_capital |-> total_final_capital]>>

(* ------------------------ run_portfolio_backtest ----------------------- *)

\* The runs of a portfolio, one run_backtest call per symbol and timeframe,
\* in the order of the two loops (lines 75-82 inside lines 91-95).

InitPortfolio == InitSweep

\* Lines 79 and 34-57, then lines 112-124: the run gets enough data and
\* enters _execute_backtest.
BeginPortfolioRun ==
    /\ pc = "idle"
    /\ run < MaxRuns
    /\ run' = run + 1
    /\ fetched' \in {len \in DataLengths : enough_data(len)}
    /\ n' \in PortfolioLengths
    /\ i' = loop_start
    /\ current_bar' = Bar0
    /\ entry_signal' = 0
    /\ exit_signal' = 0
    /\ capital' = R(INITIAL_CAPITAL)
    /\ current_position' = <<>>
    /\ trades' = <<>>
    /\ equity_curve' = <<>>
    /\ positions' = <<>>
    /\ performance' = <<>>
    /\ pc' = "loop"
    /\ UNCHANGED <<self_positions, history, twin, collected, portfolio,
                   self_state>>

LoopIterationPortfolio ==
    Iterate(Closes, {0}, {NaN}, PortfolioSignals, PortfolioSignals, FALSE)

\* Lines 80-82 and 93-95: the result of the run is kept, with reset().
KeepResult ==
    /\ pc = "done"
    /\ collected' = Append(collected, [run |-> run, trades |-> trades,
                                       performance |-> performance])
    /\ self_positions' = <<>>
    /\ self_state' = reset(self_state)
    /\ pc' = "idle"
    /\ UNCHANGED <<n, i, current_bar, entry_signal, exit_signal, capital,
                   current_position, trades, equity_curve, positions,
                   performance, history, twin, run, fetched, portfolio>>

\* Line 98: after the last run, the portfolio performance of the kept results.
CalculatePortfolioPerformance ==
    /\ pc = "idle"
    /\ run = MaxRuns
    /\ portfolio' = calculate_portfolio_performance(collected)
    /\ pc' = "aggregated"
    /\ UNCHANGED <<n, i, current_bar, entry_signal, exit_signal, capital,
                   current_position, trades, equity_curve, positions,
                   self_positions, performance, history, twin, run, collected,
                   fetched,
                   self_state>>

NextPortfolio ==
    \/ BeginPortfolioRun
    \/ SkipRun
    \/ LoopIterationPortfolio
    \/ CloseRemaining
    \/ CalculatePerformanceMetrics
    \/ KeepResult
    \/ CalculatePortfolioPerformance

SpecPortfolio == InitPortfolio /\ [][NextPortfolio]_vars

(* ------------------------------- claims -------------------------------- *)

Last(q) == q[Len(q)]

\* The step is an iteration of the loop (it evaluates bar i).
IsLoopStep == pc = "loop" /\ pc' = "loop" /\ i' = i + 1

\* The step is the return from _execute_backtest.
IsReturnStep == pc = "loop" /\ pc' = "returned"

\* The exit reason read off the thresholds: stop first, then target, else signal.
ReasonAt(p, price) ==
    LET beyond_stop == IF p.direction = "long" THEN RLe(price, p.stop_loss)
                       ELSE RGe(price, p.stop_loss)
        beyond_target == IF p.direction = "long" THEN RGe(price, p.take_profit)
                         ELSE RLe(price, p.take_profit)
    IN  IF beyond_stop THEN "stop_loss"
        ELSE IF beyond_target THEN "take_profit" ELSE "signal"

\* C1: at most one position is open at any time: the [entry_index, exit_index)
\* intervals of the recorded positions and their trades are pairwise disjoint,
\* only the last position may lack a trade, and inside the loop it lacks one
\* exactly when the slot is occupied (so a position is opened only when Flat).
C1_OnePositionAtATime ==
    /\ Len(positions) - Len(trades) \in {0, 1}
    /\ pc = "loop" => (Len(positions) - Len(trades) = 1 <=> current_position # <<>>)
    /\ \A k \in 1..Len(trades) :
          /\ trades[k].entry_time = positions[k].entry_index
          /\ positions[k].entry_index <= trades[k].exit_time
    /\ \A j, k \in 1..Len(positions) :
          j < k => j <= Len(trades) /\ trades[j].exit_time <= positions[k].entry_index

\* Two positions were opened, the second on the bar that closed the first.
C1_Witness ==
    /\ pc = "loop"
    /\ Len(positions) >= 2
    /\ Len(trades) = Len(positions) - 1
    /\ Last(trades).exit_time = Last(positions).entry_index

\* C2: on an evaluated bar with a position open at its start, the position is
\* closed on that bar if and only if the exit trigger is nonzero or the stop is
\* breached (Long: low <= stop_loss; Short: high >= stop_loss); otherwise it
\* stays open unchanged, also when the bar reaches the take-profit level.
C2_ExitIffTriggerOrStop ==
    [][(IsLoopStep /\ current_position # <<>>) =>
        LET p == current_position[1]
            stop_hit == \/ p.direction = "long" /\ RLe(current_bar'.low, p.stop_loss)
                        \/ p.direction = "short" /\ RGe(current_bar'.high, p.stop_loss)
        IN  IF exit_signal' # 0 \/ stop_hit
            THEN /\ Len(trades') = Len(trades) + 1
                 /\ Last(trades').entry_time = p.entry_time
                 /\ Last(trades').exit_time = i
            ELSE /\ trades' = trades
                 /\ current_position' = current_position]_vars

\* A Long position is still open after a bar whose high reached its
\* take-profit level, with no exit trigger and no stop breach.
C2_Witness ==
    /\ pc = "loop"
    /\ current_position # <<>>
    /\ current_position[1].entry_index < current_bar.name
    /\ current_position[1].direction = "long"
    /\ exit_signal = 0
    /\ RGe(current_bar.high, current_position[1].take_profit)

\* C3: when a position is closed at bar i and the entry trigger of bar i is
\* nonzero, a new position is opened at bar i after the exit phase, at that
\* bar's close, sized at 10% of the capital that includes the closed trade's pnl.
C3_SameBarReentry ==
    [][(IsLoopStep /\ Len(trades') = Len(trades) + 1 /\ entry_signal' # 0) =>
        /\ Len(positions') = Len(positions) + 1
        /\ current_position' = <<Last(positions')>>
        /\ Last(trades').exit_time = i
        /\ Last(positions').entry_index = i
        /\ Last(positions').entry_time = current_bar'.name
        /\ Last(positions').entry_price = current_bar'.close
        /\ RMul(Last(positions').quantity, current_bar'.close)
              = RMul(RAdd(capital, Last(trades').pnl), <<1, 10>>)]_vars

\* A position was opened on the bar that closed a trade with nonzero pnl.
C3_Witness ==
    /\ pc = "loop"
    /\ trades # <<>>
    /\ current_position # <<>>
    /\ Last(trades).exit_time = current_position[1].entry_index
    /\ Last(trades).pnl # Zero

\* C4: a position still open after the last bar is closed by exactly one
\* further trade, at close[n-1] whatever the triggers are, with the exit reason
\* read off the position's stop_loss / take_profit at that price; with no
\* position open the ledger is returned as it is.
C4_ForcedClose ==
    [][IsReturnStep =>
        IF current_position = <<>> THEN trades' = trades
        ELSE /\ Len(trades') = Len(trades) + 1
             /\ SubSeq(trades', 1, Len(trades)) = trades
             /\ current_bar.name = n - 1
             /\ Last(trades').entry_time = current_position[1].entry_time
             /\ Last(trades').exit_time = n - 1
             /\ Last(trades').exit_price = current_bar.close
             /\ Last(trades').exit_reason
                   = ReasonAt(current_position[1], current_bar.close)]_vars

\* A position held over the last bar, with no exit trigger there, was closed
\* at the last close beyond its target.
C4_Witness ==
    /\ pc = "returned"
    /\ current_position # <<>>
    /\ exit_signal = 0
    /\ Last(trades).entry_time < n - 1
    /\ Last(trades).exit_time = n - 1
    /\ Last(trades).exit_reason = "take_profit"

C6_CapitalAfterEveryClose ==
    [][Len(trades') = Len(trades) + 1 =>
        capital' = RAdd(capital, Last(trades').pnl)]_vars

\* C7: capital changes only through the pnl of closed trades: a step that
\* appends no trade leaves capital unchanged, and the equity point of a bar on
\* which no trade is closed carries the capital of the previous point
\* (initial_capital at bar 1).
C7_CapitalChangesOnlyOnClose ==
    [][/\ Len(trades') = Len(trades) => capital' = capital
       /\ (IsLoopStep /\ Len(trades') = Len(trades)) =>
             Last(equity_curve').capital =
                 IF equity_curve = <<>> THEN R(INITIAL_CAPITAL)
                 ELSE Last(equity_curve).capital]_vars

\* A position was opened and marked to market at a nonzero unrealized pnl
\* while no trade has been closed.
C7_Witness ==
    /\ pc = "loop"
    /\ trades = <<>>
    /\ current_position # <<>>
    /\ Len(equity_curve) >= 2
    /\ Last(equity_curve).unrealized_pnl # Zero

\* The pnl of the first k trades of the ledger, added up in ledger order.
RECURSIVE LedgerPnl(_)
LedgerPnl(k) ==
    IF k = 0 THEN Zero ELSE RAdd(LedgerPnl(k - 1), trades[k].pnl)

\* C8: for a run with a non-empty ledger, performance.total_pnl is the sum of
\* pnl over all trades of the ledger, a force-closed final trade included.
C8_TotalPnlIsLedgerSum ==
    (pc = "done" /\ trades # <<>>) =>
        /\ performance # <<>>
        /\ performance[1].total_pnl = LedgerPnl(Len(trades))

\* Metrics were computed over a ledger with a losing trade and a force-closed
\* last trade of nonzero pnl.
C8_Witness ==
    /\ pc = "done"
    /\ Len(trades) >= 2
    /\ current_position # <<>>
    /\ Last(trades).pnl # Zero
    /\ \E k \in 1..Len(trades) : RLt(trades[k].pnl, Zero)

\* C9: for a run with a non-empty ledger, total_return is
\* (final_equity - initial_capital) / initial_capital * 100 with final_equity
\* the equity of the last equity point, and final_capital is that final_equity.
C9_TotalReturn ==
    (pc = "done" /\ trades # <<>>) =>
        /\ performance # <<>>
        /\ equity_curve # <<>>
        /\ performance[1].initial_capital = R(INITIAL_CAPITAL)
        /\ performance[1].final_capital = Last(equity_curve).equity
        /\ RMul(performance[1].total_return, R(INITIAL_CAPITAL))
              = RMul(RSub(Last(equity_curve).equity, R(INITIAL_CAPITAL)), Hundred)

\* Metrics were computed for a run whose last equity point carries unrealized
\* pnl on top of a capital changed by earlier trades.
C9_Witness ==
    /\ pc = "done"
    /\ trades # <<>>
    /\ Last(equity_curve).unrealized_pnl # Zero
    /\ Last(equity_curve).capital # R(INITIAL_CAPITAL)
    /\ performance[1].total_return # Zero

\* C10: when a Long position is open, the exit trigger is 0 and the bar's low
\* is at or below the stop_loss, the position is closed on that bar by a trade
\* with exit_reason stop_loss and exit_price the bar's close.
C10_StopLossClosure ==
    [][(/\ IsLoopStep
        /\ current_position # <<>>
        /\ current_position[1].direction = "long"
        /\ exit_signal' = 0
        /\ RLe(current_bar'.low, current_position[1].stop_loss)) =>
        /\ Len(trades') = Len(trades) + 1
        /\ Last(trades').exit_time = i
        /\ Last(trades').exit_price = current_bar'.close
        /\ Last(trades').exit_reason = "stop_loss"]_vars

\* C11: the exit_reason of every trade is read off its exit_price, direction,
\* stop_loss and take_profit alone, whatever closed the position: 'stop_loss'
\* when the exit price is at or beyond the stop (Long: at or below, Short: at
\* or above), otherwise 'take_profit' when it is at or beyond the target (Long:
\* at or above, Short: at or below), otherwise 'signal'.
C11_ExitReasonFromLevels ==
    \A k \in 1..Len(trades) :
        LET t == trades[k]
            at_stop == IF t.direction = "long" THEN RLe(t.exit_price, t.stop_loss)
                       ELSE RGe(t.exit_price, t.stop_loss)
            at_target == IF t.direction = "long"
                         THEN RGe(t.exit_price, t.take_profit)
                         ELSE RLe(t.exit_price, t.take_profit)
        IN  /\ t.exit_reason = "stop_loss" <=> at_stop
            /\ t.exit_reason = "take_profit" <=> ~at_stop /\ at_target
            /\ t.exit_reason = "signal" <=> ~at_stop /\ ~at_target

\* A Long closed by an exit trigger at a price that is at its stop and at its
\* target at once (a zero range) carries 'stop_loss'.
C11_Witness ==
    /\ pc = "loop"
    /\ exit_signal # 0
    /\ Len(trades) = 1
    /\ trades[1].exit_time = current_bar.name
    /\ trades[1].direction = "long"
    /\ trades[1].stop_loss = trades[1].take_profit
    /\ trades[1].exit_price = trades[1].stop_loss
    /\ trades[1].exit_reason = "stop_loss"

\* C12: the exit_price of every trade is the close of the bar on which the
\* position was closed: bar i for a closure inside the loop, the last bar
\* n-1 for the forced close; a stop or target level is never the fill price.
C12_ExitPriceIsBarClose ==
    [][Len(trades') = Len(trades) + 1 =>
        /\ SubSeq(trades', 1, Len(trades)) = trades
        /\ IsLoopStep =>
              /\ current_bar'.name = i
              /\ Last(trades').exit_time = i
              /\ Last(trades').exit_price = current_bar'.close
        /\ IsReturnStep =>
              /\ current_bar.name = n - 1
              /\ Last(trades').exit_time = n - 1
              /\ Last(trades').exit_price = current_bar.close]_vars

\* A Long was closed on a bar whose low breached its stop, with no exit
\* trigger, at the bar's close above the stop level.
C12_Witness ==
    /\ pc = "loop"
    /\ trades # <<>>
    /\ exit_signal = 0
    /\ Last(trades).direction = "long"
    /\ Last(trades).exit_time = current_bar.name
    /\ RLe(current_bar.low, Last(trades).stop_loss)
    /\ RGt(Last(trades).exit_price, Last(trades).stop_loss)
    /\ Last(trades).exit_price = current_bar.close

\* The recorded rows carry one entry trigger, +1 at bar a, and one nonzero
\* exit trigger, at bar b > a; closes do not fall from bar a to bar b, and on
\* none of these bars does the range reach the stop or the target a Long
\* entered at close[a] gets from the ATR of bar a.
SingleLongRoundTrip(a, b) ==
    LET entry == history[a].bar.close
        atr == IF history[a].bar.atr = NaN THEN RMul(entry, <<1, 50>>)
               ELSE history[a].bar.atr
        stop == RSub(entry, RMul(R(2), atr))
        target == RAdd(entry, RMul(R(4), atr))
    IN  /\ a < b
        /\ \A k \in 1..Len(history) :
              /\ history[k].entry = (IF k = a THEN 1 ELSE 0)
              /\ history[k].exit # 0 <=> k = b
        /\ \A k \in a..(b - 1) :
              RLe(history[k].bar.close, history[k + 1].bar.close)
        /\ \A k \in a..b :
              /\ RGt(history[k].bar.low, stop)
              /\ RLt(history[k].bar.high, target)

\* C13: a run whose only entry trigger is +1 at a bar a >= 1 and whose only
\* nonzero exit trigger is at a bar b > a, with prices rising from a to b and
\* without a stop or target breach on the bars a..b, returns a ledger of
\* exactly one trade: Long, entered at a and closed at b with exit_reason
\* 'signal', pnl = (close[b] - close[a]) * quantity, where quantity is 10% of
\* the capital at bar a (the initial capital) divided by close[a].
C13_SingleLongSignalTrade ==
    pc \in {"returned", "done"} =>
        \A a, b \in 1..Len(history) :
            SingleLongRoundTrip(a, b) =>
                /\ Len(trades) = 1
                /\ trades[1].direction = "long"
                /\ trades[1].entry_time = a
                /\ trades[1].exit_time = b
                /\ trades[1].exit_reason = "signal"
                /\ trades[1].quantity =
                      RDiv(RMul(R(INITIAL_CAPITAL), <<1, 10>>), history[a].bar.close)
                /\ trades[1].pnl =
                      RMul(RSub(history[b].bar.close, history[a].bar.close),
                           trades[1].quantity)

\* Such a run has returned: entry at bar 1 at 1000, exit trigger at bar 2 at
\* 1250, one trade of quantity 1 and pnl 250.
C13_Witness ==
    /\ pc = "done"
    /\ Len(history) = 2
    /\ SingleLongRoundTrip(1, 2)
    /\ history[1].bar.close = R(1000)
    /\ history[2].bar.close = R(1250)
    /\ Len(trades) = 1
    /\ trades[1].pnl = R(250)

\* C14: while the entry trigger has been 0 on every evaluated bar, whatever
\* the exit triggers and the prices were, the run is Flat, the ledger is
\* empty, no position was recorded, and every bar has an equity point with
\* equity = capital = initial_capital and unrealized_pnl = 0; the metrics of
\* such a run are empty.
C14_NoTriggerRun ==
    (\A k \in 1..Len(history) : history[k].entry = 0) =>
        /\ current_position = <<>>
        /\ trades = <<>>
        /\ positions = <<>>
        /\ capital = R(INITIAL_CAPITAL)
        /\ Len(equity_curve) = Len(history)
        /\ \A k \in 1..Len(equity_curve) :
              /\ equity_curve[k].equity = R(INITIAL_CAPITAL)
              /\ equity_curve[k].capital = R(INITIAL_CAPITAL)
              /\ equity_curve[k].unrealized_pnl = Zero
        /\ pc = "done" => performance = <<>>

\* A run over two evaluated bars without entry trigger, with an exit trigger
\* and moving prices, has ended with empty metrics.
C14_Witness ==
    /\ pc = "done"
    /\ Len(history) = 2
    /\ \A k \in 1..2 : history[k].entry = 0
    /\ history[1].exit # 0
    /\ history[1].bar.close # history[2].bar.close
    /\ Len(equity_curve) = 2
    /\ performance = <<>>

\* C15: row 0 of the inputs is never evaluated: a run over a series that
\* differs in row 0 only (another bar, another entry trigger or another exit
\* trigger there) has the same ledger, the same positions and the same equity
\* curve at every step, and no position has entry_index 0.
C15_Row0NeverEvaluated ==
    /\ \A k \in 1..Len(positions) : positions[k].entry_index >= 1
    /\ \A k \in 1..Len(equity_curve) : equity_curve[k].timestamp >= 1
    /\ twin # <<>> =>
          /\ twin[1].trades = trades
          /\ twin[1].positions = positions
          /\ twin[1].equity_curve = equity_curve

\* Two runs have ended with a trade, one over a series whose row 0 carries
\* no entry trigger and one over a series whose row 0 carries one.
C15_Witness ==
    /\ pc = "done"
    /\ twin # <<>>
    /\ entry_signal = 0
    /\ twin[1].row0.entry = 1
    /\ twin[1].trades # <<>>
    /\ trades[1].entry_time = 1

\* C16: every evaluated bar appends exactly one equity point, in ascending
\* bar order (the point of bar i is the i-th), taken after the exit and entry
\* phases of that bar (it carries the capital after the bar's closure and no
\* unrealized pnl when the run is Flat after the bar); the forced close and
\* the steps after it append none, so a run over n bars returns n - 1 points.
C16_OneEquityPointPerBar ==
    [][/\ IsLoopStep =>
             /\ Len(equity_curve') = i
             /\ SubSeq(equity_curve', 1, Len(equity_curve)) = equity_curve
             /\ Last(equity_curve').timestamp = i
             /\ Last(equity_curve').capital = capital'
             /\ current_position' = <<>> =>
                   /\ Last(equity_curve').unrealized_pnl = Zero
                   /\ Last(equity_curve').equity = capital'
       /\ IsReturnStep =>
             /\ equity_curve' = equity_curve
             /\ Len(equity_curve) = n - 1
       /\ pc # "loop" => equity_curve' = equity_curve]_vars

\* A run over 3 bars has returned 2 equity points and a ledger whose last
\* trade is the forced close of the position held over the last bar.
C16_Witness ==
    /\ pc = "returned"
    /\ n = 3
    /\ Len(equity_curve) = 2
    /\ equity_curve[1].timestamp = 1
    /\ equity_curve[2].timestamp = 2
    /\ current_position # <<>>
    /\ Len(trades) = 2

\* C17: every equity point satisfies equity = capital + unrealized_pnl, and
\* the unrealized_pnl of the latest point is 0 when the run is Flat after the
\* bar's transitions and otherwise the open position marked at the bar's
\* close: (close - entry_price) * quantity for a Long, (entry_price - close)
\* * quantity for a Short.
C17_EquityIsCapitalPlusUnrealized ==
    /\ \A k \in 1..Len(equity_curve) :
          equity_curve[k].equity =
              RAdd(equity_curve[k].capital, equity_curve[k].unrealized_pnl)
    /\ equity_curve # <<>> =>
          /\ Last(equity_curve).capital = capital
          /\ Last(equity_curve).unrealized_pnl =
                IF current_position = <<>> THEN Zero
                ELSE LET p == current_position[1]
                     IN  IF p.direction = "long"
                         THEN RMul(RSub(current_bar.close, p.entry_price), p.quantity)
                         ELSE RMul(RSub(p.entry_price, current_bar.close), p.quantity)

\* A Short is open at a gain: the bar closed below its entry price and the
\* point carries a positive unrealized pnl on top of the capital.
C17_Witness ==
    /\ pc = "loop"
    /\ current_position # <<>>
    /\ current_position[1].direction = "short"
    /\ RLt(current_bar.close, current_position[1].entry_price)
    /\ RGt(Last(equity_curve).unrealized_pnl, Zero)
    /\ RGt(Last(equity_curve).equity, Last(equity_curve).capital)

\* C18: within a run the ids of the positions are strictly increasing in
\* order of opening, hence distinct, and the position_id of every trade is
\* the id of exactly one position, the one the trade closes.
C18_PositionIdsIncrease ==
    /\ \A j, k \in 1..Len(positions) :
          j < k => positions[j].id < positions[k].id
    /\ \A t \in 1..Len(trades) :
          /\ trades[t].position_id = positions[t].id
          /\ Cardinality({k \in 1..Len(positions) :
                              positions[k].id = trades[t].position_id}) = 1

\* C19: no state leaks from one run of a sweep into the next: every run,
\* whatever runs preceded it (runs with trades, runs that returned no result),
\* enters its loop at bar 1 with capital = initial_capital, Flat, with an empty
\* ledger, an empty equity curve, no recorded position and an id counter at
\* its start, that is in the state a single run starts in.
C19_NoLeakAcrossRuns ==
    [][(run' = run + 1 /\ pc' = "loop") =>
        /\ i' = loop_start
        /\ capital' = R(INITIAL_CAPITAL)
        /\ current_position' = <<>>
        /\ trades' = <<>>
        /\ equity_curve' = <<>>
        /\ positions' = <<>>
        /\ self_positions' = <<>>
        /\ performance' = <<>>]_vars

\* The second run of a sweep is at the top of its loop, after a run that
\* returned a result with trades, with nothing left of that run.
C19_Witness ==
    /\ pc = "loop"
    /\ run = 2
    /\ i = loop_start
    /\ Len(collected) = 1
    /\ collected[1] >= 1
    /\ capital = R(INITIAL_CAPITAL)
    /\ trades = <<>>
    /\ equity_curve = <<>>

\* C20: every position opened in a run has a quantity strictly above 0,
\* whatever trades preceded it, losing Shorts included.
C20_QuantityPositive ==
    \A k \in 1..Len(positions) : RGt(positions[k].quantity, Zero)

\* C21: a position opened at bar i has entry_price = close[i] and quantity =
\* (capital * 0.10) / close[i], so that entry_price * quantity is 10% of
\* capital, where capital is the realized capital at the moment of opening:
\* the initial capital plus the pnl of every trade closed so far, the one
\* closed earlier on the same bar included.
C21_PositionSizing ==
    [][(IsLoopStep /\ Len(positions') = Len(positions) + 1) =>
        LET p == Last(positions')
        IN  /\ capital' = RAdd(R(INITIAL_CAPITAL), sum_pnl(trades', "all"))
            /\ p.entry_index = i
            /\ p.entry_price = current_bar'.close
            /\ p.quantity = RDiv(RMul(capital', <<1, 10>>), current_bar'.close)
            /\ RMul(p.entry_price, p.quantity) = RMul(capital', <<1, 10>>)]_vars

\* A position was opened on the bar that closed a losing trade, after an
\* earlier winning trade: its quantity follows the capital of that moment.
C21_Witness ==
    /\ pc = "loop"
    /\ Len(trades) = 2
    /\ Len(positions) = 3
    /\ RGt(trades[1].pnl, Zero)
    /\ RLt(trades[2].pnl, Zero)
    /\ trades[2].exit_time = positions[3].entry_index
    /\ capital # R(INITIAL_CAPITAL)
    /\ RMul(positions[3].entry_price, positions[3].quantity)
          = RMul(capital, <<1, 10>>)

\* C22: the entry_index values of the positions recorded in a run are
\* strictly increasing in the order of opening, and each lies in 1..n-1.
C22_EntryIndexIncreasing ==
    /\ \A k \in 1..Len(positions) :
          /\ positions[k].entry_index >= 1
          /\ positions[k].entry_index <= n - 1
    /\ \A j, k \in 1..Len(positions) :
          j < k => positions[j].entry_index < positions[k].entry_index

\* Three positions were opened on the three evaluated bars of a run.
C22_Witness ==
    /\ n = 4
    /\ Len(positions) = 3
    /\ positions[1].entry_index = 1
    /\ positions[2].entry_index = 2
    /\ positions[3].entry_index = 3

\* C23: the sign of an exit trigger is irrelevant: a run over a series in
\* which any of the nonzero exit triggers carry the other sign has the same
\* ledger, the same positions and the same equity curve at every step; a
\* nonzero exit trigger closes a Long and a Short alike.
C23_ExitSignIrrelevant ==
    twin # <<>> =>
        /\ twin[1].trades = trades
        /\ twin[1].positions = positions
        /\ twin[1].equity_curve = equity_curve
        /\ twin[1].capital = capital

\* A Long was closed by an exit trigger of +1 on a bar that did not reach
\* its stop; the run beside it read the trigger with the other sign.
C23_Witness ==
    /\ pc = "loop"
    /\ twin # <<>>
    /\ twin[1].differs = "exit sign"
    /\ exit_signal = 1
    /\ Len(trades) = 1
    /\ trades[1].direction = "long"
    /\ trades[1].exit_time = current_bar.name
    /\ RGt(current_bar.low, trades[1].stop_loss)
    /\ twin[1].trades = trades

\* The pnl of the winning (wins = TRUE) or of the losing trades among the
\* first k trades of the ledger, added up in ledger order.
RECURSIVE LedgerSide(_, _)
LedgerSide(k, wins) ==
    IF k = 0 THEN Zero
    ELSE IF (wins /\ RGt(trades[k].pnl, Zero)) \/ (~wins /\ RLt(trades[k].pnl, Zero))
         THEN RAdd(LedgerSide(k - 1, wins), trades[k].pnl)
         ELSE LedgerSide(k - 1, wins)

\* C24: for a non-empty ledger, with gross_profit the sum of the positive and
\* gross_loss the magnitude of the sum of the negative trade pnls,
\* profit_factor is the finite quotient gross_profit / gross_loss whenever
\* gross_loss > 0 and the +infinity sentinel whenever gross_loss = 0 (with
\* winning trades, and also when every trade has pnl 0): no quotient is
\* taken over a zero gross_loss.
C24_ProfitFactor ==
    (pc = "done" /\ trades # <<>>) =>
        LET m == performance[1]
        IN  /\ m.gross_profit = LedgerSide(Len(trades), TRUE)
            /\ m.gross_loss = RAbs(LedgerSide(Len(trades), FALSE))
            /\ RGe(m.gross_loss, Zero)
            /\ IF RGt(m.gross_loss, Zero)
               THEN /\ m.profit_factor = RDiv(m.gross_profit, m.gross_loss)
                    /\ m.profit_factor[2] # 0
               ELSE m.profit_factor = Inf

\* Metrics of a ledger with a winning and no losing trade carry the
\* sentinel.
C24_Witness ==
    /\ pc = "done"
    /\ performance # <<>>
    /\ RGt(performance[1].gross_profit, Zero)
    /\ performance[1].gross_loss = Zero
    /\ performance[1].losing_trades = 0
    /\ performance[1].profit_factor = Inf

\* C25: the metrics are empty if and only if the ledger is empty; a ledger
\* with at least one trade comes with a non-empty equity curve and gets the
\* full metrics mapping.
C25_EmptyMetricsIffEmptyLedger ==
    /\ trades # <<>> => equity_curve # <<>>
    /\ pc = "done" =>
          /\ performance = <<>> <=> trades = <<>>
          /\ performance # <<>> =>
                DOMAIN performance[1] =
                    {"total_trades", "winning_trades", "losing_trades",
                     "win_rate", "total_pnl", "gross_profit", "gross_loss",
                     "profit_factor", "avg_win", "avg_loss", "max_drawdown",
                     "total_return", "duration_hours", "hourly_return",
                     "initial_capital", "final_capital"}

\* A ledger of one trade of pnl 0 got the full mapping.
C25_Witness ==
    /\ pc = "done"
    /\ Len(trades) = 1
    /\ trades[1].pnl = Zero
    /\ performance # <<>>
    /\ performance[1].total_trades = 1
    /\ performance[1].winning_trades = 0

\* The highest equity among the first k points of the curve.
RunningPeak(k) ==
    CHOOSE e \in {equity_curve[j].equity : j \in 1..k} :
        \A j \in 1..k : RLe(equity_curve[j].equity, e)

\* (equity - running_peak) / running_peak * 100 at point k.
DrawdownAt(k) ==
    RMul(RDiv(RSub(equity_curve[k].equity, RunningPeak(k)), RunningPeak(k)),
         Hundred)

\* C26: max_drawdown is the magnitude of the lowest value over the equity
\* curve of (equity - running_peak) / running_peak * 100, with running_peak
\* the highest equity seen so far; it is never negative, and 0 exactly when
\* no point lies below its running peak.
C26_MaxDrawdown ==
    (pc = "done" /\ performance # <<>>) =>
        LET md == performance[1].max_drawdown
            points == 1..Len(equity_curve)
        IN  /\ RGe(md, Zero)
            /\ \A k \in points : RGe(DrawdownAt(k), RNeg(md))
            /\ \E k \in points : DrawdownAt(k) = RNeg(md)
            /\ md = Zero <=>
                  \A k \in points : RGe(equity_curve[k].equity, RunningPeak(k))

\* Equity rose above its first value and fell back, not below it: the
\* drawdown is measured from the peak in between.
C26_Witness ==
    /\ pc = "done"
    /\ performance # <<>>
    /\ Len(equity_curve) = 3
    /\ RGt(equity_curve[2].equity, equity_curve[1].equity)
    /\ RLt(equity_curve[3].equity, equity_curve[2].equity)
    /\ RGe(equity_curve[3].equity, equity_curve[1].equity)
    /\ RGt(performance[1].max_drawdown, Zero)

\* C27: a run whose data is empty or shorter than 100 bars is skipped: it
\* executes nothing, changes nothing of the backtester and reports no result,
\* while a run with enough data is executed, and every executed run is
\* reported under its own number, also after a skipped one.
C27_ShortRunSkipped ==
    [][/\ run' = run + 1 =>
            IF fetched' = 0 \/ fetched' < MIN_CANDLES
            THEN /\ pc' = "idle"
                 /\ collected' = collected
                 /\ trades' = trades
                 /\ performance' = performance
                 /\ self_positions' = self_positions
            ELSE pc' = "loop" /\ trades' = <<>> /\ collected' = collected
        /\ pc = "done" /\ pc' = "idle" =>
            /\ fetched >= MIN_CANDLES
            /\ Len(collected') = Len(collected) + 1
            /\ Last(collected').run = run]_vars

\* Run 1 was skipped for lack of data and run 2 is executed and reported.
C27_Witness ==
    /\ pc = "idle"
    /\ run = 2
    /\ Len(collected) = 1
    /\ collected[1].run = 2
    /\ fetched >= MIN_CANDLES

\* The wins of kept result k: its trades with a pnl above zero.
RunWins(k) ==
    Cardinality({j \in 1..Len(collected[k].trades) :
                    RGt(collected[k].trades[j].pnl, Zero)})

\* The total pnl of kept result k, as the run reported it.
RunPnl(k) ==
    IF collected[k].performance = <<>> THEN Zero
    ELSE collected[k].performance[1].total_pnl

\* Sums over the first k kept results: trade counts, wins and pnl.
RECURSIVE RunsTradeCount(_)
RunsTradeCount(k) ==
    IF k = 0 THEN 0 ELSE RunsTradeCount(k - 1) + Len(collected[k].trades)

RECURSIVE RunsWins(_)
RunsWins(k) == IF k = 0 THEN 0 ELSE RunsWins(k - 1) + RunWins(k)

RECURSIVE RunsPnl(_)
RunsPnl(k) == IF k = 0 THEN Zero ELSE RAdd(RunsPnl(k - 1), RunPnl(k))

\* C28: the portfolio metrics pool the trades of all kept results:
\* total_trades is the sum of the runs' trade counts, total_pnl the sum of the
\* runs' trade pnls, and win_rate the winning trades of all runs over the
\* trades of all runs, in percent.
C28_PortfolioPooling ==
    (pc = "aggregated" /\ portfolio # <<>>) =>
        /\ portfolio[1].total_trades = RunsTradeCount(Len(collected))
        /\ portfolio[1].total_pnl = RunsPnl(Len(collected))
        /\ portfolio[1].winning_trades = RunsWins(Len(collected))
        /\ portfolio[1].win_rate =
               RMul(Norm(RunsWins(Len(collected)),
                         RunsTradeCount(Len(collected))), Hundred)

\* Two kept runs, one with a single winning trade (win rate 100) and one with
\* two trades and no win (win rate 0): the pooled win rate is 100/3, not 50.
C28_Witness ==
    /\ pc = "aggregated"
    /\ portfolio # <<>>
    /\ Len(collected) = 2
    /\ \E a, b \in 1..2 :
        /\ a # b
        /\ Len(collected[a].trades) = 1
        /\ collected[a].performance[1].win_rate = Hundred
        /\ Len(collected[b].trades) = 2
        /\ collected[b].performance[1].win_rate = Zero
    /\ portfolio[1].total_trades = 3
    /\ portfolio[1].win_rate = <<100, 3>>

\* The capital of kept result k at the end of its run: the final capital the
\* run reported, or the untouched initial capital of a run without trades.
RunFinalCapital(k) ==
    IF collected[k].performance = <<>> THEN R(INITIAL_CAPITAL)
    ELSE collected[k].performance[1].final_capital

RECURSIVE RunsFinalCapital(_)
RunsFinalCapital(k) ==
    IF k = 0 THEN Zero ELSE RAdd(RunsFinalCapital(k - 1), RunFinalCapital(k))

\* C29: the portfolio's initial_capital and final_capital are the sums of the
\* initial and the final capital of all kept runs, the runs without trades
\* included, and total_return is the gain of the summed final capital over
\* the summed initial capital, in percent.
C29_PortfolioCapitalSums ==
    (pc = "aggregated" /\ portfolio # <<>>) =>
        /\ portfolio[1].initial_capital = R(INITIAL_CAPITAL * Len(collected))
        /\ portfolio[1].final_capital = RunsFinalCapital(Len(collected))
        /\ portfolio[1].total_return =
               RMul(RDiv(RSub(RunsFinalCapital(Len(collected)),
                              R(INITIAL_CAPITAL * Len(collected))),
                         R(INITIAL_CAPITAL * Len(collected))), Hundred)

\* C30: the portfolio metrics are empty exactly when the kept results hold no
\* trade at all, the case of no kept result included; metrics that are not
\* empty were computed with divisors above zero: the pooled trade count for
\* win_rate and the summed initial capital for total_return.
C30_EmptyPortfolioIffNoTrades ==
    pc = "aggregated" =>
        /\ portfolio = <<>> <=> RunsTradeCount(Len(collected)) = 0
        /\ collected = <<>> => portfolio = <<>>
        /\ portfolio # <<>> =>
            /\ portfolio[1].total_trades > 0
            /\ RGt(portfolio[1].initial_capital, Zero)
            /\ portfolio[1].win_rate[2] # 0
            /\ portfolio[1].total_return[2] # 0

\* One run was skipped and the other was kept without a trade: the portfolio
\* metrics are empty although the portfolio results are not.
C30_Witness ==
    /\ pc = "aggregated"
    /\ Len(collected) = 1
    /\ collected[1].trades = <<>>
    /\ portfolio = <<>>

\* The ATR that sizes the stop of a position opened on the bar: the ATR of
\* the bar, or 2% of its close where the bar has none.
StopAtr(bar) ==
    IF isna(bar.atr) THEN RMul(bar.close, <<2, 100>>) ELSE bar.atr

\* C31: a position opened on a bar, with stop_distance = 2 * ATR, is a Long
\* for an entry signal above zero and a Short otherwise; a Long has its stop
\* at entry - stop_distance and its target at entry + 2 * stop_distance, a
\* Short has its stop at entry + stop_distance and its target at entry -
\* 2 * stop_distance; with ATR > 0 stop and target lie strictly on opposite
\* sides of the entry price, the target twice as far as the stop.
C31_StopAndTarget ==
    [][(IsLoopStep /\ Len(positions') = Len(positions) + 1) =>
        LET p == Last(positions')
            stop_distance == RMul(R(2), StopAtr(current_bar'))
        IN  /\ p.direction = (IF entry_signal' > 0 THEN "long" ELSE "short")
            /\ p.direction = "long" =>
                /\ p.stop_loss = RSub(p.entry_price, stop_distance)
                /\ p.take_profit =
                       RAdd(p.entry_price, RMul(R(2), stop_distance))
            /\ p.direction = "short" =>
                /\ p.stop_loss = RAdd(p.entry_price, stop_distance)
                /\ p.take_profit =
                       RSub(p.entry_price, RMul(R(2), stop_distance))
            /\ RGt(StopAtr(current_bar'), Zero) =>
                /\ \/ RLt(p.stop_loss, p.entry_price)
                         /\ RLt(p.entry_price, p.take_profit)
                   \/ RLt(p.take_profit, p.entry_price)
                         /\ RLt(p.entry_price, p.stop_loss)
                /\ RAbs(RSub(p.take_profit, p.entry_price)) =
                       RMul(R(2), RAbs(RSub(p.stop_loss, p.entry_price)))]_vars

\* A Long and a Short were opened on bars with an ATR of 50 and of 125: the
\* stops lie 100 and 250 from the entry, the targets 200 and 500.
C31_Witness ==
    /\ Len(positions) = 2
    /\ \E a, b \in 1..2 :
        /\ positions[a].direction = "long"
        /\ positions[a].stop_loss = RSub(positions[a].entry_price, R(100))
        /\ positions[a].take_profit = RAdd(positions[a].entry_price, R(200))
        /\ positions[b].direction = "short"
        /\ positions[b].stop_loss = RAdd(positions[b].entry_price, R(250))
        /\ positions[b].take_profit = RSub(positions[b].entry_price, R(500))

\* C32: a bar without an ATR on which a position is opened does not end the
\* run: the position is opened with 2% of the entry price in the place of the
\* ATR, so its stop lies 4% and its target 8% from the entry, the bar gets
\* its equity point, and the loop goes on.
C32_AtrFallback ==
    [][(IsLoopStep /\ Len(positions') = Len(positions) + 1
                   /\ isna(current_bar'.atr)) =>
        LET p == Last(positions')
            fallback == RMul(p.entry_price, <<2, 100>>)
        IN  /\ current_position' = <<[p EXCEPT !.status = "open"]>>
            /\ ~isna(p.stop_loss) /\ ~isna(p.take_profit)
            /\ RAbs(RSub(p.stop_loss, p.entry_price)) = RMul(R(2), fallback)
            /\ RAbs(RSub(p.take_profit, p.entry_price)) = RMul(R(4), fallback)
            /\ p.stop_loss =
                   RMul(p.entry_price,
                        IF p.direction = "long" THEN <<96, 100>>
                        ELSE <<104, 100>>)
            /\ Len(equity_curve') = Len(equity_curve) + 1
            /\ ~isna(Last(equity_curve').equity)
            /\ pc' = "loop"]_vars

\* A Long opened at 1000 on a bar without ATR got the stop 960 and the target
\* 1080, and was closed at that target on a later bar: the run went on to
\* produce a trade and further equity points.
C32_Witness ==
    /\ Len(trades) >= 1
    /\ trades[1].direction = "long"
    /\ trades[1].entry_price = R(1000)
    /\ trades[1].stop_loss = R(960)
    /\ trades[1].take_profit = R(1080)
    /\ trades[1].exit_reason = "take_profit"
    /\ Len(equity_curve) >= 2

\* Sequence s is the start of sequence t.
IsPrefix(s, t) == Len(s) <= Len(t) /\ s = SubSeq(t, 1, Len(s))

LedgerWins == {k \in 1..Len(trades) : RGt(trades[k].pnl, Zero)}

LedgerLosses == {k \in 1..Len(trades) : RLt(trades[k].pnl, Zero)}

LedgerEven == {k \in 1..Len(trades) : trades[k].pnl = Zero}

\* C34: for a non-empty ledger, winning_trades counts the trades with pnl > 0,
\* losing_trades those with pnl < 0 and total_trades all of them, so that
\* winning + losing <= total with equality exactly when no trade has a pnl of
\* zero; win_rate is winning_trades / total_trades * 100; gross_profit minus
\* gross_loss is total_pnl; avg_win is 0 without a winner and avg_loss is 0
\* without a loser.
C34_TradeCounts ==
    (pc = "done" /\ trades # <<>>) =>
        /\ performance # <<>>
        /\ LET m == performance[1]
           IN  /\ m.winning_trades = Cardinality(LedgerWins)
               /\ m.losing_trades = Cardinality(LedgerLosses)
               /\ m.total_trades = Len(trades)
               /\ m.winning_trades + m.losing_trades <= m.total_trades
               /\ m.winning_trades + m.losing_trades = m.total_trades
                      <=> LedgerEven = {}
               /\ m.win_rate =
                      RMul(RDiv(R(m.winning_trades), R(m.total_trades)),
                           Hundred)
               /\ RSub(m.gross_profit, m.gross_loss) = m.total_pnl
               /\ LedgerWins = {} => m.avg_win = Zero
               /\ LedgerLosses = {} => m.avg_loss = Zero
               /\ LedgerWins # {} => RGt(m.avg_win, Zero)
               /\ LedgerLosses # {} => RLt(m.avg_loss, Zero)

\* The ledger of a finished run holds a winning trade, a losing trade and a
\* trade with a pnl of zero: winning + losing = 2 is below total = 3.
C34_Witness ==
    /\ pc = "done"
    /\ Len(trades) = 3
    /\ Cardinality(LedgerWins) = 1
    /\ Cardinality(LedgerLosses) = 1
    /\ Cardinality(LedgerEven) = 1
    /\ performance[1].win_rate = <<100, 3>>

\* C35: once a run that evaluated at least one bar has returned, the equity of
\* its last equity point minus the initial capital is the sum of pnl over the
\* whole ledger, the trade of the forced final close included although its
\* pnl was never added to capital; so total_return is total_pnl over the
\* initial capital, in percent, whenever there are metrics.
C35_LedgerEquityConsistency ==
    /\ (pc \in {"returned", "done"} /\ n >= 2) =>
        /\ equity_curve # <<>>
        /\ RSub(Last(equity_curve).equity, R(INITIAL_CAPITAL))
               = LedgerPnl(Len(trades))
    /\ (pc = "done" /\ performance # <<>>) =>
        performance[1].total_return =
            RMul(RDiv(performance[1].total_pnl, R(INITIAL_CAPITAL)), Hundred)

\* A finished run closed a trade inside the loop and another, with a nonzero
\* pnl, by the forced final close: capital holds the first pnl only, the last
\* equity both.
C35_Witness ==
    /\ pc = "done"
    /\ Len(trades) = 2
    /\ trades[1].pnl # Zero
    /\ trades[2].pnl # Zero
    /\ trades[2].exit_time = n - 1
    /\ capital = RAdd(R(INITIAL_CAPITAL), trades[1].pnl)
    /\ Last(equity_curve).equity = RAdd(capital, trades[2].pnl)
    /\ performance[1].total_return # Zero

\* C36: the equity point of the bar on which a position is opened has
\* unrealized_pnl = 0 and equity = capital, the entry price being the close
\* of that bar; the first equity point, that of bar 1, has equity =
\* initial_capital, so the running peak of the equity curve never lies below
\* the initial capital.
C36_EquityAtOpening ==
    [][/\ (IsLoopStep /\ Len(positions') = Len(positions) + 1) =>
            /\ Last(positions').entry_price = current_bar'.close
            /\ Last(equity_curve').timestamp = Last(positions').entry_time
            /\ Last(equity_curve').unrealized_pnl = Zero
            /\ Last(equity_curve').equity = capital'
       /\ equity_curve' # <<>> =>
            /\ equity_curve'[1].timestamp = 1
            /\ equity_curve'[1].equity = R(INITIAL_CAPITAL)
            /\ RGe(RunningPeak(Len(equity_curve))', R(INITIAL_CAPITAL))]_vars

\* A position was opened at bar 1 on a bar with a range above its close, and
\* another on a later bar after a trade had changed the capital: the point of
\* that bar has no unrealized pnl and its equity is the changed capital.
C36_Witness ==
    /\ pc = "loop"
    /\ Len(positions) = 2
    /\ positions[1].entry_index = 1
    /\ current_position # <<>>
    /\ current_bar.high # current_bar.close
    /\ Last(equity_curve).timestamp = current_position[1].entry_time
    /\ Last(equity_curve).unrealized_pnl = Zero
    /\ Last(equity_curve).equity = capital
    /\ capital # R(INITIAL_CAPITAL)

\* C37: portfolio metrics that are not empty have total_pnl = final_capital -
\* initial_capital, whether or not runs without trades are among the kept
\* results.
C37_PortfolioPnlIsCapitalGain ==
    (pc = "aggregated" /\ portfolio # <<>>) =>
        portfolio[1].total_pnl =
            RSub(portfolio[1].final_capital, portfolio[1].initial_capital)

\* The portfolio holds a run without trades and a run with trades whose pnl
\* is not zero.
C37_Witness ==
    /\ pc = "aggregated"
    /\ portfolio # <<>>
    /\ Len(collected) = 2
    /\ \E a, b \in 1..2 :
        /\ collected[a].trades = <<>>
        /\ Len(collected[b].trades) = 2
    /\ portfolio[1].total_pnl # Zero
    /\ portfolio[1].final_capital # portfolio[1].initial_capital

\* C38: a position opened at the final bar, index n-1, also one opened there
\* after another was closed on that bar, is closed by the forced final close
\* on that same bar: its trade is the last of the ledger, with exit_price =
\* entry_price, pnl = 0 and duration 0, and with exit_reason signal where the
\* ATR of the opening is above zero; it counts in total_trades and neither in
\* winning_trades nor in losing_trades.
C38_OpenedAtFinalBar ==
    (/\ pc \in {"returned", "done"}
     /\ positions # <<>>
     /\ Last(positions).entry_index = n - 1) =>
        /\ trades # <<>>
        /\ LET t == Last(trades)
           IN  /\ t.entry_time = Last(positions).entry_time
               /\ t.exit_time = current_bar.name
               /\ current_bar.name = n - 1
               /\ t.exit_price = t.entry_price
               /\ t.pnl = Zero
               /\ t.duration = 0
               /\ RGt(StopAtr(current_bar), Zero) => t.exit_reason = "signal"
        /\ pc = "done" =>
            /\ performance # <<>>
            /\ performance[1].total_trades = Len(trades)
            /\ performance[1].winning_trades + performance[1].losing_trades
                   <= Len(trades) - 1

\* On the final bar, a bar with an ATR of 50 and a range above its close, a
\* trade was closed with a nonzero pnl and a new position was opened: the
\* forced close made of it a second trade with pnl 0 and exit_reason signal.
C38_Witness ==
    /\ pc = "done"
    /\ n = 3
    /\ Len(trades) = 2
    /\ trades[1].exit_time = n - 1
    /\ trades[1].pnl # Zero
    /\ trades[2].entry_time = n - 1
    /\ trades[2].exit_time = n - 1
    /\ trades[2].pnl = Zero
    /\ trades[2].exit_reason = "signal"
    /\ current_bar.atr = R(50)
    /\ current_bar.high # current_bar.close
    /\ performance[1].total_trades = 2
    /\ performance[1].winning_trades + performance[1].losing_trades = 1

\* C39: whatever the attributes held before, a call of reset() leaves capital
\* at initial_capital, leaves positions, trades, equity_curve and
\* current_positions empty and leaves initial_capital as it was; a second
\* call finds these attributes and leaves them as they are; and a call is
\* possible in every state.
C39_Reset ==
    /\ run >= 1 =>
        /\ self_state.initial_capital = history[1].state.initial_capital
        /\ self_state.capital = history[1].state.initial_capital
        /\ self_positions = <<>>
        /\ self_state.trades = <<>>
        /\ self_state.equity_curve = <<>>
        /\ self_state.current_positions = <<>>
        /\ \A k \in 2..run :
              history[k] = [state |-> self_state, positions |-> self_positions]
    /\ run < MaxRuns => ENABLED Reset

\* reset() was called twice on a backtester made with an initial capital of
\* 5000 whose capital was below zero and whose lists and dictionary all held
\* an entry.
C39_Witness ==
    /\ run = 2
    /\ history[1].state.initial_capital = R(5000)
    /\ history[1].state.capital = R(-1000)
    /\ history[1].state.trades # <<>>
    /\ history[1].state.equity_curve # <<>>
    /\ history[1].state.current_positions # <<>>
    /\ history[1].positions # <<>>
    /\ self_state.capital = R(5000)
    /\ self_state.trades = <<>>

====
